---- MODULE Spec2Model ----
(***************************************************************************)
(* A model of pkg/spdx/implementation.go (sigs.k8s.io/bom): the tar        *)
(* extraction engine and its callers, the two throttled task pools         *)
(* (image download, per-file scan) and the image package assembler.        *)
(*                                                                         *)
(* Paths and references are sequences of one-character strings, so that    *)
(* filepath.Clean / Join / Dir / Base and strings.HasPrefix are computed   *)
(* the way the Go library computes them.                                   *)
(***************************************************************************)
EXTENDS Naturals, Integers, Sequences, FiniteSets, TLC

VARIABLES
    \* ---- ExtractTarballTmp and its callers
    caller,     \* "PackageFromTarball" | "PackageFromImageTarball" | "none"
    addFiles,   \* tarOpts.AddFiles of PackageFromTarball
    archive,    \* the tar file: [head, entries]
    fault,      \* the one thing of the environment that fails, or "none"
    pc,         \* position in the caller / in ExtractTarballTmp
    idx,        \* number of tar headers read so far
    tmpDir,     \* named result tmpDir of ExtractTarballTmp
    retDir,     \* value returned as tmpDir
    retErr,     \* value returned as err
    dirs,       \* directories created on disk
    files,      \* files created on disk
    numFiles,   \* numFiles
    deferred,   \* argument of the caller's deferred os.RemoveAll, or NoDefer
    callerErr,  \* TRUE when the caller returned an error
    shortCopy,  \* TRUE once io.CopyN copied fewer than hdr.Size bytes
    \* ---- the throttler and the goroutines of a pool
    op,         \* "PullImagesToArchive" | "PackageFromDirectory" | "none"
    mpc,        \* position of the goroutine that runs the operation
    tpc,        \* position of each spawned goroutine
    maxWorkers, totalJobs, workerCount, jobsStarted, jobsCompleted,
    doneChan,   \* number of values buffered in t.doneChan
    errs,       \* t.errs
    \* ---- PullImagesToArchive
    references, \* what getImageReferences returned
    outcome,    \* per child: what downloading and writing it ends in
    newrefs,    \* newrefs.Images
    mtx,        \* holder of mtx, 0 when unlocked
    tars,       \* archives written under the output directory
    pullRet,    \* what PullImagesToArchive returned
    \* ---- PackageFromDirectory
    fileList,   \* per file: what classifying, checksumming and adding it yield
    dirLic,     \* LicenseID of the directory's license, "nil" without one
    err,        \* the named result err, shared by every processDirectoryFile
    lic,        \* the variable lic, shared by every processDirectoryFile
    doneArg,    \* per task: the argument of its deferred t.Done
    newFile,    \* per task: the File f it builds
    pkgFiles,   \* the Files of pkg
    dirRet,     \* what PackageFromDirectory returned
    \* ---- ImageRefToPackage
    ipc,        \* where ImageRefToPackage is
    imgRef,     \* its argument ref
    registryUp, \* whether crane.Digest reaches the registry
    tarOk,      \* per archive: what PackageFromImageTarball makes of it
    imgK,       \* the position of the loop over references.Images
    heap,       \* the packages allocated, a *Package is an index
    imgRet,     \* what ImageRefToPackage returned
    \* ---- PackageFromImageTarball: the layers of the image
    lpc,            \* where PackageFromImageTarball is
    scanImages,     \* spdxOpts.ScanImages
    analyzeLayers,  \* spdxOpts.AnalyzeLayers
    layerFiles,     \* len(manifest.LayerFiles)
    scanOut,        \* what ct.ReadOSPackages returns when it is called
    layFault,       \* the step of the function that fails, if one does
    layerNum,       \* layerNum
    osPackageData,  \* osPackageData
    layerI,         \* the loop variable i
    imagePackage,   \* the layer packages added to imagePackage
    layRet,         \* what PackageFromImageTarball returned
    \* ---- IgnorePatterns
    gpc,            \* where IgnorePatterns is
    extraPatterns,  \* the argument extraPatterns
    skipGitIgnore,  \* the argument skipGitIgnore
    gitIgnore,      \* the .gitignore of dirPath: [exists, opens, lines]
    scanned,        \* lines of .gitignore the scanner has read
    patterns,       \* patterns
    ignRet          \* what IgnorePatterns returned

exVars == <<caller, addFiles, archive, fault, pc, idx, tmpDir, retDir, retErr,
            dirs, files, numFiles, deferred, callerErr, shortCopy>>

thrVars == <<maxWorkers, totalJobs, workerCount, jobsStarted, jobsCompleted,
             doneChan, errs>>

pullVars == <<references, outcome, newrefs, mtx, tars, pullRet>>

poolVars == <<op, mpc, tpc, thrVars>>

dirVars == <<fileList, dirLic, err, lic, doneArg, newFile, pkgFiles, dirRet>>

imgVars == <<ipc, imgRef, registryUp, tarOk, imgK, heap, imgRet>>

layVars == <<lpc, scanImages, analyzeLayers, layerFiles, scanOut, layFault,
             layerNum, osPackageData, layerI, imagePackage, layRet>>

ignVars == <<gpc, extraPatterns, skipGitIgnore, gitIgnore, scanned, patterns,
             ignRet>>

\* the variables of PackageFromImageTarball's layers and of IgnorePatterns
auxVars == <<layVars, ignVars>>

\* everything but the variables of the extraction engine
nonExVars == <<poolVars, pullVars, dirVars, imgVars, auxVars>>

vars == <<exVars, poolVars, pullVars, dirVars, imgVars, auxVars>>

-----------------------------------------------------------------------------
(* Bounds *)

\* longest archive (number of tar entries) that is enumerated
MaxEntries == 2

\* most children of an image index, with every outcome of every download
MaxChildren == 3

\* most children of an image index in the runs that fill the download pool
PoolChildren == 5

\* most files of a directory, with every outcome of every file
MaxFiles == 2

\* most files of a directory in the runs that fill the file pool
PoolFiles == 6

-----------------------------------------------------------------------------
(* strings, path/filepath *)

Sep == "/"

HasPrefix(s, p) == Len(s) >= Len(p) /\ SubSeq(s, 1, Len(p)) = p

RECURSIVE SplitOn(_, _)
\* strings.Split(s, c) for a one-character separator c
SplitOn(s, c) ==
    IF s = <<>> THEN << <<>> >>
    ELSE LET r == SplitOn(Tail(s), c)
         IN  IF Head(s) = c THEN << <<>> >> \o r
             ELSE << <<Head(s)>> \o Head(r) >> \o Tail(r)

\* the elements of a path
Split(s) == SplitOn(s, Sep)

RECURSIVE JoinSegs(_)
\* strings.Join(segs, "/")
JoinSegs(segs) ==
    IF segs = <<>> THEN <<>>
    ELSE IF Len(segs) = 1 THEN Head(segs)
    ELSE Head(segs) \o <<Sep>> \o JoinSegs(Tail(segs))

DotDot == <<".", ".">>
Dot    == <<".">>

RECURSIVE CleanSegs(_, _, _)
\* the element loop of filepath.Clean: drop "" and ".", resolve ".."
CleanSegs(segs, stack, rooted) ==
    IF segs = <<>> THEN stack
    ELSE LET s == Head(segs)
             rest == Tail(segs)
         IN  IF s = <<>> \/ s = Dot THEN CleanSegs(rest, stack, rooted)
             ELSE IF s = DotDot THEN
                 IF stack # <<>> /\ stack[Len(stack)] # DotDot
                 THEN CleanSegs(rest, SubSeq(stack, 1, Len(stack) - 1), rooted)
                 ELSE IF rooted THEN CleanSegs(rest, stack, rooted)
                 ELSE CleanSegs(rest, Append(stack, s), rooted)
             ELSE CleanSegs(rest, Append(stack, s), rooted)

\* filepath.Clean
Clean(path) ==
    LET rooted == path # <<>> /\ path[1] = Sep
        out == (IF rooted THEN <<Sep>> ELSE <<>>)
                  \o JoinSegs(CleanSegs(Split(path), <<>>, rooted))
    IN  IF out = <<>> THEN Dot ELSE out

\* filepath.Join(a, b)
Join(a, b) ==
    IF a = <<>> /\ b = <<>> THEN <<>>
    ELSE IF a = <<>> THEN Clean(b)
    ELSE IF b = <<>> THEN Clean(a)
    ELSE Clean(a \o <<Sep>> \o b)

RECURSIVE LastSep(_)
\* index of the last separator of path, 0 when it has none
LastSep(path) ==
    IF path = <<>> THEN 0
    ELSE IF path[Len(path)] = Sep THEN Len(path)
    ELSE LastSep(SubSeq(path, 1, Len(path) - 1))

\* filepath.Dir
Dir(path) == Clean(SubSeq(path, 1, LastSep(path)))

RECURSIVE StripTrailingSep(_)
StripTrailingSep(path) ==
    IF path # <<>> /\ path[Len(path)] = Sep
    THEN StripTrailingSep(SubSeq(path, 1, Len(path) - 1))
    ELSE path

\* filepath.Base
Base(path) ==
    IF path = <<>> THEN Dot
    ELSE LET p == StripTrailingSep(path)
             q == SubSeq(p, LastSep(p) + 1, Len(p))
         IN  IF q = <<>> THEN <<Sep>> ELSE q

\* p is d itself or lies below it
Under(p, d) == p = d \/ HasPrefix(p, d \o <<Sep>>)

\* p lies strictly below directory d
StrictlyUnder(p, d) == p # d /\ Under(p, d)

RECURSIVE Ancestors(_)
\* p and every directory above it, the root excluded
Ancestors(p) ==
    IF p = <<Sep>> \/ p = Dot \/ p = <<>> THEN {}
    ELSE {p} \cup Ancestors(Dir(p))

-----------------------------------------------------------------------------
(* ExtractTarballTmp: inputs *)

\* the directory os.MkdirTemp creates ("/t")
TmpPath == <<Sep, "t">>

NoPath  == <<>>          \* the empty string ""
NoDefer == <<"-">>       \* no deferred os.RemoveAll registered
Nil     == "nil"
IllegalPath == "illegal file path"

GzipMagic == <<31, 139, 8>>

\* first bytes of the tar file: empty, two bytes, gzip magic, a plain tar header
Heads == {<<>>, <<31, 139>>, GzipMagic, <<117, 115, 116>>}

Entry(k, n, sz, av) == [kind |-> k, name |-> n, size |-> sz, avail |-> av]

\* the tar entries archives are built from
Catalogue ==
    { Entry("reg",  <<"a">>, 1, 1),                              \* a
      Entry("reg",  <<"d", Sep, "a">>, 1, 1),                    \* d/a
      Entry("dir",  <<"d">>, 0, 0),                              \* d/
      Entry("reg",  <<"d", Sep, ".", "w", "h">>, 0, 0),          \* d/.wh
      Entry("reg",  <<".", ".", Sep, "e">>, 1, 1),               \* ../e
      Entry("reg",  <<".", ".", Sep, "t", "x", Sep, "e">>, 1, 1),\* ../tx/e
      Entry("reg",  <<".">>, 0, 0),                              \* .
      Entry("link", <<"l">>, 1, 0),      \* header-only entry claiming a size
      Entry("reg",  <<"b">>, 2, 1) }     \* body cut short by the end of the stream

RECURSIVE SeqsUpTo(_, _)
\* the sequences over S of length at most n
SeqsUpTo(S, n) ==
    IF n = 0 THEN {<<>>}
    ELSE LET shorter == SeqsUpTo(S, n - 1)
         IN  shorter \cup {Append(q, e) : q \in shorter, e \in S}

\* a file shorter than three bytes holds no tar entry
Archives ==
    { [head |-> h, entries |-> es] : h \in Heads, es \in SeqsUpTo(Catalogue, MaxEntries) }

WellFormedArchive(a) == Len(a.head) < 3 => a.entries = <<>>

Faults == {"none", "mkdirtemp", "open", "seek", "gzip", "tarread", "create",
           "write", "readonly"}

-----------------------------------------------------------------------------
(* ExtractTarballTmp *)

\* the tar header read last
Hdr == archive.entries[idx]

\* hdr.FileInfo().IsDir()
IsDir(h) == h.kind = "dir"

\* hdr.FileInfo().Name(): path.Base of the (cleaned, for a directory) name
FileInfoName(h) == IF IsDir(h) THEN Base(Clean(h.name)) ELSE Base(h.name)

\* strings.HasPrefix(filepath.Base(hdr.FileInfo().Name()), ".wh")
IsWhiteout(h) == HasPrefix(Base(FileInfoName(h)), <<".", "w", "h">>)

\* the check of sanitizeExtractPath: destpath keeps the prefix clean(tmpDir)+"/"
PathAllowed(dir, filePath) ==
    HasPrefix(Join(dir, filePath), Clean(dir) \o <<Sep>>)

\* sanitizeExtractPath: <<destpath, err>>
sanitizeExtractPath(dir, filePath) ==
    IF ~PathAllowed(dir, filePath) THEN <<NoPath, IllegalPath>>
    ELSE <<Join(dir, filePath), Nil>>

\* a return statement of ExtractTarballTmp
Return(d, e) ==
    /\ retDir' = d
    /\ retErr' = e
    /\ pc' = "returned"

\* os.MkdirTemp(os.TempDir(), "spdx-tar-extract-")
MkdirTemp ==
    /\ pc = "mkdirtemp"
    /\ IF fault = "mkdirtemp"
       THEN /\ Return(NoPath, "mkdirtemp")
            /\ UNCHANGED <<tmpDir, dirs>>
       ELSE /\ tmpDir' = TmpPath
            /\ dirs' = dirs \cup {TmpPath}
            /\ pc' = "open"
            /\ UNCHANGED <<retDir, retErr>>
    /\ UNCHANGED <<caller, addFiles, archive, fault, idx, files, numFiles,
                   deferred, callerErr, shortCopy>>
    /\ UNCHANGED nonExVars

\* os.Open(tarPath)
OpenTar ==
    /\ pc = "open"
    /\ IF fault = "open"
       THEN Return(tmpDir, "open")
       ELSE pc' = "sample" /\ UNCHANGED <<retDir, retErr>>
    /\ UNCHANGED <<caller, addFiles, archive, fault, idx, tmpDir, dirs, files,
                   numFiles, deferred, callerErr, shortCopy>>
    /\ UNCHANGED nonExVars

\* io.ReadFull(f, sample[:])
SampleHeader ==
    /\ pc = "sample"
    /\ IF Len(archive.head) < 3
       THEN Return(NoPath, "sample")
       ELSE pc' = "rewind" /\ UNCHANGED <<retDir, retErr>>
    /\ UNCHANGED <<caller, addFiles, archive, fault, idx, tmpDir, dirs, files,
                   numFiles, deferred, callerErr, shortCopy>>
    /\ UNCHANGED nonExVars

\* f.Seek(0, 0)
Rewind ==
    /\ pc = "rewind"
    /\ IF fault = "seek"
       THEN Return(NoPath, "rewind")
       ELSE pc' = "reader" /\ UNCHANGED <<retDir, retErr>>
    /\ UNCHANGED <<caller, addFiles, archive, fault, idx, tmpDir, dirs, files,
                   numFiles, deferred, callerErr, shortCopy>>
    /\ UNCHANGED nonExVars

\* sample[0] == 0x1f && sample[1] == 0x8b && sample[2] == 0x08
Gzipped == SubSeq(archive.head, 1, 3) = GzipMagic

\* gzip.NewReader(f) / tar.NewReader
NewReader ==
    /\ pc = "reader"
    /\ IF Gzipped /\ fault = "gzip"
       THEN Return(NoPath, "gzip")
       ELSE pc' = "next" /\ UNCHANGED <<retDir, retErr>>
    /\ UNCHANGED <<caller, addFiles, archive, fault, idx, tmpDir, dirs, files,
                   numFiles, deferred, callerErr, shortCopy>>
    /\ UNCHANGED nonExVars

\* hdr, err := tr.Next()
TarNext ==
    /\ pc = "next"
    /\ IF idx < Len(archive.entries)
       THEN /\ idx' = idx + 1
            /\ pc' = "filter"
            /\ UNCHANGED <<retDir, retErr>>
       ELSE /\ IF fault = "tarread"
               THEN Return(tmpDir, "tarread")
               ELSE pc' = "finish" /\ UNCHANGED <<retDir, retErr>>
            /\ UNCHANGED idx
    /\ UNCHANGED <<caller, addFiles, archive, fault, tmpDir, dirs, files,
                   numFiles, deferred, callerErr, shortCopy>>
    /\ UNCHANGED nonExVars

\* the two continue statements: directories and whiteout files
FilterEntry ==
    /\ pc = "filter"
    /\ pc' = IF IsDir(Hdr) \/ IsWhiteout(Hdr) THEN "next" ELSE "mkdirall"
    /\ UNCHANGED <<caller, addFiles, archive, fault, idx, tmpDir, retDir, retErr,
                   dirs, files, numFiles, deferred, callerErr, shortCopy>>
    /\ UNCHANGED nonExVars

\* the directories os.MkdirAll(p) has to create
Missing(p) == Ancestors(p) \ dirs

\* os.MkdirAll(p) fails: a component is a file, or a directory outside the
\* temporary directory is needed and cannot be created
MkdirAllFails(p) ==
    \/ Ancestors(p) \cap files # {}
    \/ fault = "readonly" /\ \E d \in Missing(p) : ~Under(d, TmpPath)

\* os.MkdirAll(filepath.Join(tmpDir, filepath.Dir(hdr.Name)), 0o755)
MkdirAll ==
    /\ pc = "mkdirall"
    /\ LET p == Join(tmpDir, Dir(Hdr.name))
       IN  IF MkdirAllFails(p)
           THEN Return(tmpDir, "mkdirall") /\ UNCHANGED dirs
           ELSE /\ dirs' = dirs \cup Missing(p)
                /\ pc' = "sanitize"
                /\ UNCHANGED <<retDir, retErr>>
    /\ UNCHANGED <<caller, addFiles, archive, fault, idx, tmpDir, files,
                   numFiles, deferred, callerErr, shortCopy>>
    /\ UNCHANGED nonExVars

\* targetFile, err := sanitizeExtractPath(tmpDir, hdr.Name)
Sanitize ==
    /\ pc = "sanitize"
    /\ LET r == sanitizeExtractPath(tmpDir, Hdr.name)
       IN  IF r[2] # Nil
           THEN Return(tmpDir, r[2])
           ELSE pc' = "create" /\ UNCHANGED <<retDir, retErr>>
    /\ UNCHANGED <<caller, addFiles, archive, fault, idx, tmpDir, dirs, files,
                   numFiles, deferred, callerErr, shortCopy>>
    /\ UNCHANGED nonExVars

\* the targetFile of the entry being extracted
TargetFile == sanitizeExtractPath(tmpDir, Hdr.name)[1]

\* os.Create(targetFile)
CreateFile ==
    /\ pc = "create"
    /\ IF fault = "create" \/ TargetFile \in dirs
       THEN Return(tmpDir, "create") /\ UNCHANGED files
       ELSE /\ files' = files \cup {TargetFile}
            /\ pc' = "copy"
            /\ UNCHANGED <<retDir, retErr>>
    /\ UNCHANGED <<caller, addFiles, archive, fault, idx, tmpDir, dirs,
                   numFiles, deferred, callerErr, shortCopy>>
    /\ UNCHANGED nonExVars

\* bytes tr.Read hands out for the entry: a header-only entry reads as
\* (0, io.EOF) whatever its Size says
Readable(h) == IF h.kind = "reg" THEN h.avail ELSE 0

\* io.CopyN(f, tr, hdr.Size): "ok", "EOF" (the source ended cleanly before
\* Size bytes) or "error" (truncated stream, failed write)
CopyN(h) ==
    IF fault = "write" /\ h.size > 0 /\ Readable(h) > 0 THEN "error"
    ELSE IF Readable(h) >= h.size THEN "ok"
    ELSE IF h.kind = "reg" THEN "error"
    ELSE "EOF"

\* if _, err := io.CopyN(f, tr, hdr.Size); err != nil { ... }; numFiles++
CopyEntry ==
    /\ pc = "copy"
    /\ LET r == CopyN(Hdr)
       IN  /\ shortCopy' = (shortCopy \/ r # "ok")
           /\ IF r = "ok"
              THEN /\ numFiles' = numFiles + 1
                   /\ pc' = "next"
                   /\ UNCHANGED <<retDir, retErr>>
              ELSE IF r = "EOF"
              THEN /\ pc' = "finish"
                   /\ UNCHANGED <<numFiles, retDir, retErr>>
              ELSE /\ Return(tmpDir, "copy")
                   /\ UNCHANGED numFiles
    /\ UNCHANGED <<caller, addFiles, archive, fault, idx, tmpDir, dirs, files,
                   deferred, callerErr>>
    /\ UNCHANGED nonExVars

\* return tmpDir, err: err is the function's named result, nil since os.Open
Finish ==
    /\ pc = "finish"
    /\ Return(tmpDir, Nil)
    /\ UNCHANGED <<caller, addFiles, archive, fault, idx, tmpDir, dirs, files,
                   numFiles, deferred, callerErr, shortCopy>>
    /\ UNCHANGED nonExVars

-----------------------------------------------------------------------------
(* PackageFromTarball and PackageFromImageTarball, as callers of the engine *)

\* os.RemoveAll(p) on a set of paths; RemoveAll("") removes nothing
RemoveAll(paths, p) ==
    IF p = NoPath \/ p = NoDefer THEN paths
    ELSE {x \in paths : ~Under(x, p)}

\* the call of di.ExtractTarballTmp (PackageFromTarball: only when AddFiles)
CallExtract ==
    /\ pc = "call"
    /\ pc' = IF caller = "PackageFromTarball" /\ ~addFiles THEN "body"
             ELSE "mkdirtemp"
    /\ UNCHANGED <<caller, addFiles, archive, fault, idx, tmpDir, retDir, retErr,
                   dirs, files, numFiles, deferred, callerErr, shortCopy>>
    /\ UNCHANGED nonExVars

\* if err != nil { return nil, ... }; defer os.RemoveAll(tmp)
AfterExtract ==
    /\ pc = "returned"
    /\ IF retErr # Nil
       THEN /\ callerErr' = TRUE
            /\ pc' = "exit"
            /\ UNCHANGED deferred
       ELSE /\ deferred' = retDir
            /\ pc' = "body"
            /\ UNCHANGED callerErr
    /\ UNCHANGED <<caller, addFiles, archive, fault, idx, tmpDir, retDir, retErr,
                   dirs, files, numFiles, shortCopy>>
    /\ UNCHANGED nonExVars

\* the rest of the caller (scan of the directory, manifest, layers), which
\* succeeds or fails; the deferred os.RemoveAll runs as it returns
CallerBody ==
    /\ pc = "body"
    /\ \E ok \in BOOLEAN : callerErr' = ~ok
    /\ dirs' = RemoveAll(dirs, deferred)
    /\ files' = RemoveAll(files, deferred)
    /\ pc' = "exit"
    /\ UNCHANGED <<caller, addFiles, archive, fault, idx, tmpDir, retDir, retErr,
                   numFiles, deferred, shortCopy>>
    /\ UNCHANGED nonExVars

\* PullImagesToArchive has not returned
NoResult == [isNil |-> TRUE, Images |-> <<>>, err |-> <<>>]

\* the pools at rest
IdlePools ==
    /\ op = "none"
    /\ mpc = "idle"
    /\ tpc = <<>>
    /\ maxWorkers = 0
    /\ totalJobs = 0
    /\ workerCount = 0
    /\ jobsStarted = 0
    /\ jobsCompleted = 0
    /\ doneChan = 0
    /\ errs = <<>>

IdlePull ==
    /\ references = <<>>
    /\ outcome = <<>>
    /\ newrefs = <<>>
    /\ mtx = 0
    /\ tars = {}
    /\ pullRet = NoResult

IdleDir ==
    /\ fileList = <<>>
    /\ dirLic = "nil"
    /\ err = <<>>
    /\ lic = "nil"
    /\ doneArg = <<>>
    /\ newFile = <<>>
    /\ pkgFiles = {}
    /\ dirRet = NoResult

\* ImageRefToPackage has not returned
NoPackage == [isNil |-> TRUE, pkg |-> 0, err |-> ""]

IdleImage ==
    /\ ipc = "idle"
    /\ imgRef = <<>>
    /\ registryUp = FALSE
    /\ tarOk = <<>>
    /\ imgK = 0
    /\ heap = <<>>
    /\ imgRet = NoPackage

\* PackageFromImageTarball has not returned
NoLayers == [isNil |-> TRUE, layers |-> <<>>, err |-> ""]

\* no OS package data: a nil *[]osinfo.PackageDBEntry
NoData == [isNil |-> TRUE, entries |-> <<>>]

IdleLayers ==
    /\ lpc = "idle"
    /\ scanImages = FALSE
    /\ analyzeLayers = FALSE
    /\ layerFiles = 0
    /\ scanOut = [layerNum |-> 0, data |-> NoData, err |-> FALSE]
    /\ layFault = [step |-> "none", at |-> 0]
    /\ layerNum = 0
    /\ osPackageData = NoData
    /\ layerI = 0
    /\ imagePackage = <<>>
    /\ layRet = NoLayers

\* IgnorePatterns has not returned
NoPatterns == [isNil |-> TRUE, patterns |-> <<>>, err |-> ""]

IdleIgnore ==
    /\ gpc = "idle"
    /\ extraPatterns = <<>>
    /\ skipGitIgnore = FALSE
    /\ gitIgnore = [exists |-> FALSE, opens |-> TRUE, lines |-> <<>>]
    /\ scanned = 0
    /\ patterns = <<>>
    /\ ignRet = NoPatterns

InitExtract ==
    /\ IdlePools
    /\ IdlePull
    /\ IdleDir
    /\ IdleImage
    /\ IdleLayers
    /\ IdleIgnore
    /\ caller \in {"PackageFromTarball", "PackageFromImageTarball"}
    /\ addFiles \in BOOLEAN
    /\ caller = "PackageFromImageTarball" => addFiles
    /\ archive \in {a \in Archives : WellFormedArchive(a)}
    /\ fault \in Faults
    /\ pc = "call"
    /\ idx = 0
    /\ tmpDir = NoPath
    /\ retDir = NoPath
    /\ retErr = Nil
    /\ dirs = {}
    /\ files = {}
    /\ numFiles = 0
    /\ deferred = NoDefer
    /\ callerErr = FALSE
    /\ shortCopy = FALSE

NextExtract ==
    \/ CallExtract
    \/ MkdirTemp
    \/ OpenTar
    \/ SampleHeader
    \/ Rewind
    \/ NewReader
    \/ TarNext
    \/ FilterEntry
    \/ MkdirAll
    \/ Sanitize
    \/ CreateFile
    \/ CopyEntry
    \/ Finish
    \/ AfterExtract
    \/ CallerBody

SpecExtract == InitExtract /\ [][NextExtract]_vars

-----------------------------------------------------------------------------
(* The throttler (github.com/nozzle/throttler) as the two pools use it *)

\* throttler.New(maxWorkers, totalJobs)
ThrottlerNew(cap, total) ==
    /\ maxWorkers' = cap
    /\ totalJobs' = total
    /\ workerCount' = 0
    /\ jobsStarted' = 0
    /\ jobsCompleted' = 0
    /\ doneChan' = 0
    /\ errs' = <<>>

\* the end of Throttle: once every job has been started, receive from
\* doneChan until jobsCompleted reaches totalJobs; otherwise return
AwaitAll(started, completed) ==
    IF started = totalJobs /\ completed < totalJobs
    THEN jobsCompleted' = completed + 1 /\ mpc' = "recvAll"
    ELSE jobsCompleted' = completed /\ mpc' = "spawn"

\* t.Throttle() up to its first receive: count the job and the worker; with
\* maxWorkers workers running, wait for one of them
ThrottleEnter ==
    /\ jobsStarted' = jobsStarted + 1
    /\ IF workerCount + 1 = maxWorkers
       THEN /\ workerCount' = workerCount
            /\ jobsCompleted' = jobsCompleted + 1
            /\ mpc' = "recvCap"
       ELSE /\ workerCount' = workerCount + 1
            /\ AwaitAll(jobsStarted + 1, jobsCompleted)
    /\ UNCHANGED <<maxWorkers, totalJobs, doneChan, errs>>

\* <-t.doneChan, reached because maxWorkers workers were running
ThrottleRecvCap ==
    /\ mpc = "recvCap"
    /\ doneChan > 0
    /\ doneChan' = doneChan - 1
    /\ AwaitAll(jobsStarted, jobsCompleted)
    /\ UNCHANGED <<maxWorkers, totalJobs, workerCount, jobsStarted, errs>>

\* <-t.doneChan, in the loop that awaits every job
ThrottleRecvAll ==
    /\ mpc = "recvAll"
    /\ doneChan > 0
    /\ doneChan' = doneChan - 1
    /\ AwaitAll(jobsStarted, jobsCompleted)
    /\ UNCHANGED <<maxWorkers, totalJobs, workerCount, jobsStarted, errs>>

\* a nil error of a pool task; a task's error is <<task, kind>>
NoErr == <<>>

\* t.Done(err): record a non-nil error, then send on doneChan
ThrottlerDone(e) ==
    /\ errs' = IF e = NoErr THEN errs ELSE Append(errs, e)
    /\ doneChan' = doneChan + 1
    /\ UNCHANGED <<maxWorkers, totalJobs, workerCount, jobsStarted, jobsCompleted>>

\* t.Err(): nil (no error recorded), or multiError(t.errs), whose message
\* is that of the first error recorded
ThrottlerErr == errs

\* goroutines started by a go statement
Spawned == {i \in DOMAIN tpc : tpc[i] # "unborn"}

\* goroutines that have called t.Done
Finished == {i \in DOMAIN tpc : tpc[i] = "done"}

\* pool tasks started and not yet done
InFlight == Spawned \ Finished

-----------------------------------------------------------------------------
(* getImageReferences: the children of an image index *)

\* the output directory PullImagesToArchive writes to ("/o")
OutDir == <<Sep, "o">>

Platforms == << [arch |-> <<"a", "m", "d">>, os |-> <<"l", "i", "n">>],
                [arch |-> <<"a", "r", "m">>, os |-> <<"l", "i", "n">>],
                [arch |-> <<>>, os |-> <<>>] >>

Hexes == << <<"1">>, <<"2">> >>

\* name.NewDigest("registry/repo@algo:hex").String(), here "r/i@s:<hex>"
DigestString(hex) == <<"r", Sep, "i", "@", "s", ":">> \o hex

\* the ImageReferenceInfo appended for the i-th manifest of the index: Digest,
\* MediaType, Arch and OS are set, Reference and Archive are not
ChildRef(i) ==
    [ Digest    |-> DigestString(Hexes[((i - 1) % Len(Hexes)) + 1]),
      MediaType |-> "manifest",
      Arch      |-> Platforms[((i - 1) % Len(Platforms)) + 1].arch,
      OS        |-> Platforms[((i - 1) % Len(Platforms)) + 1].os,
      Reference |-> <<>>,
      Archive   |-> <<>> ]

\* images.Images for an index of n manifests
IndexChildren(n) == [i \in 1..n |-> ChildRef(i)]

-----------------------------------------------------------------------------
(* PullImagesToArchive *)

\* d.DigestStr(): the part of the digest reference after "@"
DigestStr(ref) == SplitOn(ref, "@")[2]

\* p := strings.Split(d.DigestStr(), ":")
DigestParts(ref) == SplitOn(DigestStr(ref), ":")

TarSuffix == <<".", "t", "a", "r">>

\* tarPath := filepath.Join(path, p[0]+".tar"): the algorithm instead of the hex
TarPathAlgo(path, ref) == Join(path, DigestParts(ref)[1] \o TarSuffix)

\* tarPath := filepath.Join(path, p[1]+".tar")
TarPath(path, ref) == Join(path, DigestParts(ref)[2] \o TarSuffix)

\* getImageReferences, os.MkdirAll(path), newrefs, throttler.New(4, len(...))
PullStart ==
    /\ op = "PullImagesToArchive"
    /\ mpc = "start"
    /\ newrefs' = <<>>
    /\ ThrottlerNew(4, Len(references))
    /\ tpc' = [i \in 1..Len(references) |-> "unborn"]
    /\ mpc' = "spawn"
    /\ UNCHANGED <<op, references, outcome, mtx, tars, pullRet>>
    /\ UNCHANGED <<exVars, auxVars, imgVars, dirVars>>

\* the loop body without its t.Throttle(): the goroutine is started and the
\* loop goes on
PullSpawnNoThrottle ==
    /\ op = "PullImagesToArchive"
    /\ mpc = "spawn"
    /\ Cardinality(Spawned) < Len(references)
    /\ tpc' = [tpc EXCEPT ![Cardinality(Spawned) + 1] = "run"]
    /\ UNCHANGED <<op, mpc, thrVars, pullVars, exVars, auxVars, imgVars, dirVars>>

\* go func(r ImageReferenceInfo) {...}(refData); t.Throttle(), up to the
\* receive Throttle blocks in, or to its return
PullSpawn ==
    /\ op = "PullImagesToArchive"
    /\ mpc = "spawn"
    /\ Cardinality(Spawned) < Len(references)
    /\ tpc' = [tpc EXCEPT ![Cardinality(Spawned) + 1] = "run"]
    /\ ThrottleEnter
    /\ UNCHANGED <<op, pullVars, exVars, auxVars, imgVars, dirVars>>

\* the task up to the archive on disk: parse the digest, fetch the image,
\* write it; a failure ends the task in t.Done(err)
PullDownload(i) ==
    /\ op = "PullImagesToArchive"
    /\ tpc[i] = "run"
    /\ IF Len(DigestParts(references[i].Digest)) < 2
       THEN /\ ThrottlerDone(<<i, "digest">>)
            /\ tpc' = [tpc EXCEPT ![i] = "done"]
            /\ UNCHANGED tars
       ELSE IF outcome[i] = "remote"
       THEN /\ ThrottlerDone(<<i, "remote">>)
            /\ tpc' = [tpc EXCEPT ![i] = "done"]
            /\ UNCHANGED tars
       ELSE IF outcome[i] = "write"
       THEN /\ ThrottlerDone(<<i, "write">>)
            /\ tpc' = [tpc EXCEPT ![i] = "done"]
            /\ tars' = tars \cup {TarPath(OutDir, references[i].Digest)}
       ELSE /\ tars' = tars \cup {TarPath(OutDir, references[i].Digest)}
            /\ tpc' = [tpc EXCEPT ![i] = "wrote"]
            /\ UNCHANGED thrVars
    /\ UNCHANGED <<op, mpc, references, outcome, newrefs, mtx, pullRet, exVars, auxVars, imgVars,
                   dirVars>>

\* mtx.Lock()
PullLock(i) ==
    /\ op = "PullImagesToArchive"
    /\ tpc[i] = "wrote"
    /\ mtx = 0
    /\ mtx' = i
    /\ tpc' = [tpc EXCEPT ![i] = "locked"]
    /\ UNCHANGED <<op, mpc, thrVars, references, outcome, newrefs, tars, pullRet,
                   exVars, auxVars, imgVars, dirVars>>

\* r.Archive = tarPath; newrefs.Images = append(newrefs.Images, r); mtx.Unlock()
PullAppend(i) ==
    /\ op = "PullImagesToArchive"
    /\ tpc[i] = "locked"
    /\ newrefs' = Append(newrefs,
          [references[i] EXCEPT !.Archive = TarPath(OutDir, references[i].Digest)])
    /\ mtx' = 0
    /\ tpc' = [tpc EXCEPT ![i] = "appended"]
    /\ UNCHANGED <<op, mpc, thrVars, references, outcome, tars, pullRet, exVars, auxVars, imgVars,
                   dirVars>>

\* t.Done(nil)
PullDone(i) ==
    /\ op = "PullImagesToArchive"
    /\ tpc[i] = "appended"
    /\ ThrottlerDone(NoErr)
    /\ tpc' = [tpc EXCEPT ![i] = "done"]
    /\ UNCHANGED <<op, mpc, pullVars, exVars, auxVars, imgVars, dirVars>>

\* the receives of t.Throttle() in the loop of PullImagesToArchive
PullThrottle ==
    /\ op = "PullImagesToArchive"
    /\ \/ ThrottleRecvCap
       \/ ThrottleRecvAll
    /\ UNCHANGED <<op, tpc, pullVars, exVars, auxVars, imgVars, dirVars>>

\* the return with the check of t.Err() left out: return &newrefs, nil
PullReturnIgnoreErr ==
    /\ op = "PullImagesToArchive"
    /\ mpc = "spawn"
    /\ Cardinality(Spawned) = Len(references)
    /\ pullRet' = [isNil |-> FALSE, Images |-> newrefs, err |-> NoErr]
    /\ mpc' = "returned"
    /\ UNCHANGED <<op, tpc, thrVars, references, outcome, newrefs, mtx, tars,
                   exVars, auxVars, imgVars, dirVars>>

\* after the loop: if err := t.Err(); err != nil { return nil, err };
\* return &newrefs, nil
PullReturn ==
    /\ op = "PullImagesToArchive"
    /\ mpc = "spawn"
    /\ Cardinality(Spawned) = Len(references)
    /\ pullRet' = IF ThrottlerErr # NoErr
                  THEN [isNil |-> TRUE, Images |-> <<>>, err |-> ThrottlerErr]
                  ELSE [isNil |-> FALSE, Images |-> newrefs, err |-> NoErr]
    /\ mpc' = "returned"
    /\ UNCHANGED <<op, tpc, thrVars, references, outcome, newrefs, mtx, tars,
                   exVars, auxVars, imgVars, dirVars>>

\* the extraction engine at rest
IdleExtract ==
    /\ caller = "none"
    /\ addFiles = FALSE
    /\ archive = [head |-> <<>>, entries |-> <<>>]
    /\ fault = "none"
    /\ pc = "idle"
    /\ idx = 0
    /\ tmpDir = NoPath
    /\ retDir = NoPath
    /\ retErr = Nil
    /\ dirs = {}
    /\ files = {}
    /\ numFiles = 0
    /\ deferred = NoDefer
    /\ callerErr = FALSE
    /\ shortCopy = FALSE

Outcomes == {"ok", "remote", "write"}

\* PullImagesToArchive about to run on an index of n children
PullCalled(n) ==
    /\ mpc = "start"
    /\ tpc = <<>>
    /\ maxWorkers = 0
    /\ totalJobs = 0
    /\ workerCount = 0
    /\ jobsStarted = 0
    /\ jobsCompleted = 0
    /\ doneChan = 0
    /\ errs = <<>>
    /\ references = IndexChildren(n)
    /\ newrefs = <<>>
    /\ mtx = 0
    /\ tars = {}
    /\ pullRet = NoResult

InitPull ==
    /\ IdleExtract
    /\ IdleDir
    /\ IdleImage
    /\ IdleLayers
    /\ IdleIgnore
    /\ op = "PullImagesToArchive"
    /\ \E n \in 0..MaxChildren :
          /\ PullCalled(n)
          /\ outcome \in [1..n -> Outcomes]

NextPull ==
    \/ PullStart
    \/ PullSpawn
    \/ PullThrottle
    \/ \E i \in DOMAIN tpc : PullDownload(i)
    \/ \E i \in DOMAIN tpc : PullLock(i)
    \/ \E i \in DOMAIN tpc : PullAppend(i)
    \/ \E i \in DOMAIN tpc : PullDone(i)
    \/ PullReturn

SpecPull == InitPull /\ [][NextPull]_vars

\* the download pool alone, filled beyond its cap, every download succeeding
InitPullPool ==
    /\ IdleExtract
    /\ IdleDir
    /\ IdleImage
    /\ IdleLayers
    /\ IdleIgnore
    /\ op = "PullImagesToArchive"
    /\ \E n \in 0..PoolChildren :
          /\ PullCalled(n)
          /\ outcome = [i \in 1..n |-> "ok"]

-----------------------------------------------------------------------------
(* PackageFromDirectory: the pool of processDirectoryFile goroutines.        *)
(* A statement of processDirectoryFile is one step; err and lic are the      *)
(* variables of PackageFromDirectory that the closure captures, so every     *)
(* goroutine reads and writes the same two variables.                        *)

NONE == "NONE"

\* licenseTag: lic.LicenseID of the directory license, "" without one
LicenseTag == IF dirLic = "nil" THEN "" ELSE dirLic

\* reader.LicenseFromFile of file i: <<lic, err>>
LicenseFromFile(i) ==
    IF fileList[i].fail = "license" THEN <<"nil", <<i, "license">> >>
    ELSE <<fileList[i].lic, NoErr>>

\* f.ReadSourceFile of file i
ReadSourceFile(i) ==
    IF fileList[i].fail = "checksum" THEN <<i, "checksum">> ELSE NoErr

\* the error of pkg.AddFile for file i
AddFileErr(i) ==
    IF fileList[i].fail = "add" THEN <<i, "add">> ELSE NoErr

\* NewFile()
EmptyFile == [LicenseInfoInFile |-> "", LicenseConcluded |-> ""]

\* the steps up to the pool: the file list is empty, or pkg = NewPackage()
\* and t := throttler.New(5, len(fileList))
DirStart ==
    /\ op = "PackageFromDirectory"
    /\ mpc = "start"
    /\ IF Len(fileList) = 0
       THEN /\ dirRet' = [isNil |-> TRUE, Images |-> <<>>, err |-> <<0, "no files">>]
            /\ mpc' = "returned"
            /\ UNCHANGED <<tpc, thrVars, doneArg, newFile>>
       ELSE /\ ThrottlerNew(5, Len(fileList))
            /\ tpc' = [i \in 1..Len(fileList) |-> "unborn"]
            /\ doneArg' = [i \in 1..Len(fileList) |-> NoErr]
            /\ newFile' = [i \in 1..Len(fileList) |-> EmptyFile]
            /\ mpc' = "spawn"
            /\ UNCHANGED dirRet
    /\ UNCHANGED <<op, fileList, dirLic, err, lic, pkgFiles, exVars, auxVars, imgVars, pullVars>>

\* go processDirectoryFile(path, pkg); t.Throttle(), up to the receive
\* Throttle blocks in, or to its return
DirSpawn ==
    /\ op = "PackageFromDirectory"
    /\ mpc = "spawn"
    /\ Cardinality(Spawned) < Len(fileList)
    /\ tpc' = [tpc EXCEPT ![Cardinality(Spawned) + 1] = "run"]
    /\ ThrottleEnter
    /\ UNCHANGED <<op, dirVars, exVars, auxVars, imgVars, pullVars>>

\* the receives of t.Throttle() in the loop of PackageFromDirectory
DirThrottle ==
    /\ op = "PackageFromDirectory"
    /\ \/ ThrottleRecvCap
       \/ ThrottleRecvAll
    /\ UNCHANGED <<op, tpc, dirVars, exVars, auxVars, imgVars, pullVars>>

\* defer t.Done(err): the argument is evaluated now; f := NewFile()
DirDefer(i) ==
    /\ op = "PackageFromDirectory"
    /\ tpc[i] = "run"
    /\ doneArg' = [doneArg EXCEPT ![i] = err]
    /\ tpc' = [tpc EXCEPT ![i] = "classify"]
    /\ UNCHANGED <<op, mpc, thrVars, fileList, dirLic, err, lic, newFile,
                   pkgFiles, dirRet, exVars, auxVars, imgVars, pullVars>>

\* lic, err = reader.LicenseFromFile(filepath.Join(dirPath, path))
DirClassify(i) ==
    /\ op = "PackageFromDirectory"
    /\ tpc[i] = "classify"
    /\ lic' = LicenseFromFile(i)[1]
    /\ err' = LicenseFromFile(i)[2]
    /\ tpc' = [tpc EXCEPT ![i] = "check"]
    /\ UNCHANGED <<op, mpc, thrVars, fileList, dirLic, doneArg, newFile,
                   pkgFiles, dirRet, exVars, auxVars, imgVars, pullVars>>

\* if err != nil { err = fmt.Errorf(...); return }
DirCheck(i) ==
    /\ op = "PackageFromDirectory"
    /\ tpc[i] = "check"
    /\ tpc' = [tpc EXCEPT ![i] = IF err # NoErr THEN "return" ELSE "license"]
    /\ UNCHANGED <<op, mpc, thrVars, dirVars, exVars, auxVars, imgVars, pullVars>>

\* the File with the license the variable lic holds when it is read
\* (lic == nil: LicenseConcluded = licenseTag)
WithLicense(f, l) ==
    IF l = "nil"
    THEN [f EXCEPT !.LicenseInfoInFile = NONE, !.LicenseConcluded = LicenseTag]
    ELSE [f EXCEPT !.LicenseInfoInFile = l]

\* f.LicenseInfoInFile = NONE; if lic == nil {...} else {...}
DirLicense(i) ==
    /\ op = "PackageFromDirectory"
    /\ tpc[i] = "license"
    /\ newFile' = [newFile EXCEPT ![i] = WithLicense(newFile[i], lic)]
    /\ tpc' = [tpc EXCEPT ![i] = "checksum"]
    /\ UNCHANGED <<op, mpc, thrVars, fileList, dirLic, err, lic, doneArg,
                   pkgFiles, dirRet, exVars, auxVars, imgVars, pullVars>>

\* if err = f.ReadSourceFile(...); err != nil { err = fmt.Errorf(...); return }
DirChecksum(i) ==
    /\ op = "PackageFromDirectory"
    /\ tpc[i] = "checksum"
    /\ err' = ReadSourceFile(i)
    /\ tpc' = [tpc EXCEPT ![i] = IF ReadSourceFile(i) # NoErr THEN "return" ELSE "add"]
    /\ UNCHANGED <<op, mpc, thrVars, fileList, dirLic, lic, doneArg, newFile,
                   pkgFiles, dirRet, exVars, auxVars, imgVars, pullVars>>

\* if err = pkg.AddFile(f); err != nil { err = fmt.Errorf(...); return }
DirAddFile(i) ==
    /\ op = "PackageFromDirectory"
    /\ tpc[i] = "add"
    /\ err' = AddFileErr(i)
    /\ pkgFiles' = IF AddFileErr(i) # NoErr THEN pkgFiles
                   ELSE pkgFiles \cup {[file |-> i, f |-> newFile[i]]}
    /\ tpc' = [tpc EXCEPT ![i] = "return"]
    /\ UNCHANGED <<op, mpc, thrVars, fileList, dirLic, lic, doneArg, newFile,
                   dirRet, exVars, auxVars, imgVars, pullVars>>

\* the deferred call t.Done(err) with the argument DirDefer evaluated
DirDone(i) ==
    /\ op = "PackageFromDirectory"
    /\ tpc[i] = "return"
    /\ ThrottlerDone(doneArg[i])
    /\ tpc' = [tpc EXCEPT ![i] = "done"]
    /\ UNCHANGED <<op, mpc, dirVars, exVars, auxVars, imgVars, pullVars>>

\* if err := t.Err(); err != nil { return nil, err }; return pkg, nil
DirReturn ==
    /\ op = "PackageFromDirectory"
    /\ mpc = "spawn"
    /\ Cardinality(Spawned) = Len(fileList)
    /\ dirRet' = IF ThrottlerErr # NoErr
                 THEN [isNil |-> TRUE, Images |-> <<>>, err |-> ThrottlerErr]
                 ELSE [isNil |-> FALSE, Images |-> <<>>, err |-> NoErr]
    /\ mpc' = "returned"
    /\ UNCHANGED <<op, tpc, thrVars, fileList, dirLic, err, lic, doneArg,
                   newFile, pkgFiles, exVars, auxVars, imgVars, pullVars>>

FileOutcomes ==
    { [lic |-> l, fail |-> f] : l \in {"nil", "MIT"},
                                f \in {"none", "license", "checksum", "add"} }

\* PackageFromDirectory about to process its file list
DirCalled(dl) ==
    /\ dirLic = dl
    /\ op = "PackageFromDirectory"
    /\ mpc = "start"
    /\ tpc = <<>>
    /\ maxWorkers = 0
    /\ totalJobs = 0
    /\ workerCount = 0
    /\ jobsStarted = 0
    /\ jobsCompleted = 0
    /\ doneChan = 0
    /\ errs = <<>>
    /\ err = NoErr
    /\ lic = dl
    /\ doneArg = <<>>
    /\ newFile = <<>>
    /\ pkgFiles = {}
    /\ dirRet = NoResult

InitDir ==
    /\ IdleExtract
    /\ IdlePull
    /\ IdleImage
    /\ IdleLayers
    /\ IdleIgnore
    /\ \E dl \in {"nil", "APL"} : DirCalled(dl)
    /\ \E n \in 0..MaxFiles : fileList \in [1..n -> FileOutcomes]

NextDir ==
    \/ DirStart
    \/ DirSpawn
    \/ DirThrottle
    \/ \E i \in DOMAIN tpc : DirDefer(i)
    \/ \E i \in DOMAIN tpc : DirClassify(i)
    \/ \E i \in DOMAIN tpc : DirCheck(i)
    \/ \E i \in DOMAIN tpc : DirLicense(i)
    \/ \E i \in DOMAIN tpc : DirChecksum(i)
    \/ \E i \in DOMAIN tpc : DirAddFile(i)
    \/ \E i \in DOMAIN tpc : DirDone(i)
    \/ DirReturn

SpecDir == InitDir /\ [][NextDir]_vars

\* the file pool alone, filled beyond its cap, every file processed cleanly
InitDirPool ==
    /\ IdleExtract
    /\ IdlePull
    /\ IdleImage
    /\ IdleLayers
    /\ IdleIgnore
    /\ DirCalled("nil")
    /\ \E n \in 0..PoolFiles :
          fileList = [i \in 1..n |-> [lic |-> "nil", fail |-> "none"]]

\* both pools, each filled beyond its cap
InitPools == InitPullPool \/ InitDirPool

NextPools == NextPull \/ NextDir

SpecPools == InitPools /\ [][NextPools]_vars

-----------------------------------------------------------------------------
(* ImageRefToPackage: the package of an image reference.  References are    *)
(* fully qualified, "registry/repository" followed by nothing, ":tag" or    *)
(* "@algo:hex".                                                             *)

MaxLayers == 1

\* the references ImageRefToPackage is called with: "r/i:t", "r/i@s:9", "r/i"
ImageRefs == { <<"r", Sep, "i", ":", "t">>,
               <<"r", Sep, "i", "@", "s", ":", "9">>,
               <<"r", Sep, "i">> }

\* what crane.Digest answers for the image, "s:9"
RemoteDigest == <<"s", ":", "9">>

\* an info whose Archive names the archive of the first digest
TopRefWithArchive ==
    [ Digest    |-> DigestString(<<"0">>),
      MediaType |-> "index",
      Arch      |-> <<>>,
      OS        |-> <<>>,
      Reference |-> <<>>,
      Archive   |-> TarPath(OutDir, DigestString(Hexes[1])) ]

\* the top of the info getImageReferences builds and newrefs copies: the
\* digest of the index is set, Reference and Archive are not
TopRef ==
    [ Digest    |-> DigestString(<<"0">>),
      MediaType |-> "index",
      Arch      |-> <<>>,
      OS        |-> <<>>,
      Reference |-> <<>>,
      Archive   |-> <<>> ]

Contains(s, c) == \E i \in 1..Len(s) : s[i] = c

\* name.ParseReference: no reference without a repository; a reference with
\* "@" is a name.Digest, any other a name.Tag, of tag "latest" if it names none
ParseReference(s) ==
    IF s = <<>>
    THEN [ok |-> FALSE, kind |-> "", context |-> <<>>, str |-> <<>>]
    ELSE IF Contains(s, "@")
    THEN [ok |-> TRUE, kind |-> "digest", context |-> SplitOn(s, "@")[1],
          str |-> s]
    ELSE [ok |-> TRUE, kind |-> "tag", context |-> SplitOn(s, ":")[1],
          str |-> IF Contains(s, ":") THEN s
                  ELSE s \o <<":", "l", "a", "t", "e", "s", "t">>]

\* name.NewDigest succeeds on "repository@algo:hex"
IsDigest(s) ==
    /\ Len(SplitOn(s, "@")) = 2
    /\ Len(SplitOn(SplitOn(s, "@")[2], ":")) = 2

\* strings.TrimSuffix
TrimSuffix(s, suf) ==
    IF Len(s) >= Len(suf) /\ SubSeq(s, Len(s) - Len(suf) + 1, Len(s)) = suf
    THEN SubSeq(s, 1, Len(s) - Len(suf))
    ELSE s

\* the empty string purlFromImage returns when it builds no purl
NoPurl == [ok |-> FALSE, name |-> <<>>, version |-> <<>>, qualifiers |-> {}]

\* the qualifiers of the purl: repository_url, and arch, os, tag and
\* mediaType where the image has them
Qualifiers(img, parsed, url) ==
    {<<"repository_url", url>>}
      \cup (IF img.Arch # <<>> THEN {<<"arch", img.Arch>>} ELSE {})
      \cup (IF img.OS # <<>> THEN {<<"os", img.OS>>} ELSE {})
      \cup (IF parsed.kind = "tag" THEN {<<"tag", parsed.str>>} ELSE {})
      \cup (IF img.MediaType # "" THEN {<<"mediaType", img.MediaType>>} ELSE {})

\* purlFromImage(img), up telling whether crane.Digest succeeds
purlFromImage(img, up) ==
    LET parsed == ParseReference(img.Reference)
        p      == SplitOn(parsed.str, "@")
        parts  == Split(parsed.context)
        imageName == parts[Len(parts)]
        url    == TrimSuffix(parsed.context, <<Sep>> \o imageName)
    IN  IF ~parsed.ok THEN NoPurl
        ELSE IF parsed.kind = "digest" /\ Len(p) < 2 THEN NoPurl
        ELSE IF parsed.kind # "digest" /\ ~up THEN NoPurl
        ELSE IF Len(parts) < 2 THEN NoPurl
        ELSE [ok |-> TRUE,
              name |-> imageName,
              version |-> IF parsed.kind = "digest" THEN p[2] ELSE RemoteDigest,
              qualifiers |-> Qualifiers(img, parsed, url)]

\* NewPackage(), &Package{}
NewPackage ==
    [Name |-> <<>>, DownloadLocation |-> <<>>, Relationships |-> <<>>,
     ExternalRefs |-> <<>>]

\* append(p.ExternalRefs, ExternalRef{"PACKAGE-MANAGER", "purl", packageurl})
\* unless packageurl is ""
WithPurl(p, packageurl) ==
    IF packageurl.ok
    THEN [p EXCEPT !.ExternalRefs =
             Append(@, [Category |-> "PACKAGE-MANAGER", Type |-> "purl",
                        Locator |-> packageurl])]
    ELSE p

\* e.AddRelationship(rel) on the package e of the heap h
AddRelationship(h, e, rel) ==
    [h EXCEPT ![e].Relationships = Append(@, rel)]

\* the archives the children of the index are written to
ArchivePaths == {TarPath(OutDir, DigestString(Hexes[i])) : i \in 1..Len(Hexes)}

\* what PackageFromImageTarball can make of an archive: an error, or a
\* package of some layers
TarballResults ==
    {[ok |-> FALSE, layers |-> 0]}
      \cup {[ok |-> TRUE, layers |-> n] : n \in 0..MaxLayers}

\* PackageFromImageTarball(opts, tarPath): "tar path empty" without a path
PackageFromImageTarball(tarPath) ==
    IF tarPath = <<>> THEN [ok |-> FALSE, layers |-> 0] ELSE tarOk[tarPath]

\* imagePackage with one CONTAINS relationship per layer, added by
\* imagePackage.AddPackage(pkg); the layers are the packages after it
ImagePackage(at, layers) ==
    [NewPackage EXCEPT !.Relationships =
        [j \in 1..layers |->
            [Peer |-> at + j, Type |-> "CONTAINS", FullRender |-> TRUE]]]

\* subpkg.Name: ref + " (" + Arch + "/" + OS + ")", or img.Reference
VariantName(ref, img) ==
    IF img.Arch # <<>> \/ img.OS # <<>>
    THEN ref \o <<" ", "(">> \o img.Arch
             \o (IF img.Arch # <<>> THEN <<Sep>> ELSE <<>>)
             \o img.OS \o <<")">>
    ELSE img.Reference

\* both relationships added to pkg: the second one with the sub-package as
\* its peer
VariantRelationshipsOnRoot(h, pkg, subpkg) ==
    AddRelationship(
        AddRelationship(h, pkg,
            [Peer |-> subpkg, Type |-> "CONTAINS", FullRender |-> TRUE]),
        pkg, [Peer |-> subpkg, Type |-> "VARIANT_OF", FullRender |-> FALSE])

\* pkg.AddRelationship(CONTAINS subpkg, FullRender);
\* subpkg.AddRelationship(VARIANT_OF pkg)
VariantRelationships(h, pkg, subpkg) ==
    AddRelationship(
        AddRelationship(h, pkg,
            [Peer |-> subpkg, Type |-> "CONTAINS", FullRender |-> TRUE]),
        subpkg, [Peer |-> pkg, Type |-> "VARIANT_OF", FullRender |-> FALSE])

\* return nil, err; the deferred os.RemoveAll(tmpdir) removes the archives
ImgFail(e) ==
    /\ imgRet' = [isNil |-> TRUE, pkg |-> 0, err |-> e]
    /\ ipc' = "returned"
    /\ tars' = {}

\* return p, nil; the deferred os.RemoveAll(tmpdir) removes the archives
ImgReturn(p) ==
    /\ imgRet' = [isNil |-> FALSE, pkg |-> p, err |-> ""]
    /\ ipc' = "returned"
    /\ tars' = {}

\* os.MkdirTemp("", "doc-build-"), then the call of PullImagesToArchive
ImgStart ==
    /\ ipc = "start"
    /\ \E made \in BOOLEAN :
          IF made
          THEN /\ op' = "PullImagesToArchive"
               /\ ipc' = "pull"
               /\ UNCHANGED imgRet
          ELSE /\ imgRet' = [isNil |-> TRUE, pkg |-> 0,
                             err |-> "creating temporary workdir"]
               /\ ipc' = "returned"
               /\ UNCHANGED op
    /\ UNCHANGED <<mpc, tpc, thrVars, pullVars, exVars, auxVars, dirVars, imgRef,
                   registryUp, tarOk, imgK, heap>>

\* PullImagesToArchive has returned: its error is returned; without children
\* the single image follows; else pkg is made, named by the digest of the
\* index.  Here the registry and the archives get the state they are found in.
ImgAfterPull ==
    /\ ipc = "pull"
    /\ op = "PullImagesToArchive"
    /\ mpc = "returned"
    /\ registryUp' \in BOOLEAN
    /\ tarOk' \in [ArchivePaths -> TarballResults]
    /\ IF pullRet.err # NoErr
       THEN /\ ImgFail("while downloading images to archive")
            /\ UNCHANGED <<heap, imgK>>
       ELSE IF Len(pullRet.Images) = 0
       THEN /\ ipc' = "single"
            /\ UNCHANGED <<heap, imgK, imgRet, tars>>
       ELSE IF ~IsDigest(TopRef.Digest)
       THEN /\ ImgFail("parsing digest")
            /\ UNCHANGED <<heap, imgK>>
       ELSE /\ heap' = <<[NewPackage EXCEPT
                             !.Name = DigestStr(TopRef.Digest),
                             !.DownloadLocation = TopRef.Digest]>>
            /\ imgK' = 1
            /\ ipc' = "loop"
            /\ UNCHANGED <<imgRet, tars>>
    /\ UNCHANGED <<poolVars, references, outcome, newrefs, mtx, pullRet,
                   exVars, auxVars, dirVars, imgRef>>

\* the single image: p is a new package, or the package of references.Archive
\* if there is one; the purl of references is attached
ImgSingle ==
    /\ ipc = "single"
    /\ LET res == PackageFromImageTarball(TopRef.Archive)
           p   == IF TopRef.Archive # <<>>
                  THEN ImagePackage(1, res.layers)
                  ELSE NewPackage
           n   == IF TopRef.Archive # <<>> THEN res.layers ELSE 0
       IN  IF TopRef.Archive # <<>> /\ ~res.ok
           THEN /\ ImgFail("building package from single image")
                /\ UNCHANGED heap
           ELSE /\ heap' = <<WithPurl(p, purlFromImage(TopRef, registryUp))>>
                               \o [j \in 1..n |-> NewPackage]
                /\ ImgReturn(1)
    /\ UNCHANGED <<poolVars, references, outcome, newrefs, mtx, pullRet,
                   exVars, auxVars, dirVars, imgRef, registryUp, tarOk, imgK>>

\* one turn of the loop over references.Images: the sub-package of the
\* archive, its name, its purl, and the two relationships
ImgVariant ==
    /\ ipc = "loop"
    /\ imgK <= Len(pullRet.Images)
    /\ LET img    == pullRet.Images[imgK]
           res    == PackageFromImageTarball(img.Archive)
           subpkg == Len(heap) + 1
           built  == [ImagePackage(subpkg, res.layers) EXCEPT
                         !.Name = VariantName(imgRef, img)]
       IN  IF ~res.ok
           THEN /\ ImgFail("adding image variant package")
                /\ UNCHANGED <<heap, imgK>>
           ELSE /\ heap' = VariantRelationships(
                              heap \o <<WithPurl(built,
                                           purlFromImage(img, registryUp))>>
                                   \o [j \in 1..res.layers |-> NewPackage],
                              1, subpkg)
                /\ imgK' = imgK + 1
                /\ UNCHANGED <<ipc, imgRet, tars>>
    /\ UNCHANGED <<poolVars, references, outcome, newrefs, mtx, pullRet,
                   exVars, auxVars, dirVars, imgRef, registryUp, tarOk>>

\* after the loop: the purl of ref is attached to pkg; return pkg, nil
ImgRootPurl ==
    /\ ipc = "loop"
    /\ imgK > Len(pullRet.Images)
    /\ heap' = [heap EXCEPT ![1] =
          WithPurl(@, purlFromImage(
              [Reference |-> imgRef, Arch |-> <<>>, OS |-> <<>>,
               MediaType |-> "", Digest |-> <<>>, Archive |-> <<>>],
              registryUp))]
    /\ ImgReturn(1)
    /\ UNCHANGED <<poolVars, references, outcome, newrefs, mtx, pullRet,
                   exVars, auxVars, dirVars, imgRef, registryUp, tarOk, imgK>>

\* ImageRefToPackage called on a reference to an index of 0..MaxChildren images
InitImage ==
    /\ IdleExtract
    /\ IdleDir
    /\ IdleLayers
    /\ IdleIgnore
    /\ op = "none"
    /\ \E n \in 0..MaxChildren :
          /\ PullCalled(n)
          /\ outcome \in [1..n -> Outcomes]
    /\ ipc = "start"
    /\ imgRef \in ImageRefs
    /\ registryUp = FALSE
    /\ tarOk = <<>>
    /\ imgK = 0
    /\ heap = <<>>
    /\ imgRet = NoPackage

NextImage ==
    \/ ImgStart
    \/ PullStart
    \/ PullSpawn
    \/ PullThrottle
    \/ \E i \in DOMAIN tpc : PullDownload(i)
    \/ \E i \in DOMAIN tpc : PullLock(i)
    \/ \E i \in DOMAIN tpc : PullAppend(i)
    \/ \E i \in DOMAIN tpc : PullDone(i)
    \/ PullReturn
    \/ ImgAfterPull
    \/ ImgSingle
    \/ ImgVariant
    \/ ImgRootPurl

SpecImage == InitImage /\ [][NextImage]_vars

-----------------------------------------------------------------------------
(* PackageFromImageTarball: the layer packages and the OS packages.  The    *)
(* steps up to the manifest either fail or hand on len(manifest.LayerFiles). *)

MaxLayerFiles == 2

MaxOsEntries == 2

\* entries of the OS package database: two versions of one package, the
\* second without a purl
OsEntries ==
    { [Package |-> "libc", Version |-> "1", PackageURL |-> "pkg:deb/libc@1"],
      [Package |-> "libc", Version |-> "2", PackageURL |-> ""] }

\* what ct.ReadOSPackages(layerPaths) can return: an error, or a layer number
\* with no data or with the entries parsed
ScanResults ==
    {[layerNum |-> 0, data |-> NoData, err |-> TRUE]}
      \cup {[layerNum |-> n, data |-> d, err |-> FALSE] :
               n \in 0..MaxLayerFiles,
               d \in {NoData} \cup
                     {[isNil |-> FALSE, entries |-> es] :
                         es \in SeqsUpTo(OsEntries, MaxOsEntries)}}

\* the one step that fails: none, one before the layers, or the package or
\* the analysis of the layer at
LayFaults ==
    {[step |-> f, at |-> 0] :
        f \in {"none", "tarpath", "extract", "manifest", "repotags"}}
      \cup {[step |-> f, at |-> i] :
               f \in {"tarball", "analyze"}, i \in 0..(MaxLayerFiles - 1)}

\* return nil, err
LayFail(e) ==
    /\ layRet' = [isNil |-> TRUE, layers |-> <<>>, err |-> e]
    /\ lpc' = "returned"

\* the steps up to the manifest: the tar path, the extraction, the manifest
\* and its RepoTags; then imagePackage = NewPackage()
LayStart ==
    /\ lpc = "start"
    /\ IF layFault.step \in {"tarpath", "extract", "manifest", "repotags"}
       THEN LayFail(layFault.step) /\ UNCHANGED imagePackage
       ELSE /\ imagePackage' = <<>>
            /\ lpc' = "scan"
            /\ UNCHANGED layRet
    /\ UNCHANGED <<scanImages, analyzeLayers, layerFiles, scanOut, layFault,
                   layerNum, osPackageData, layerI>>
    /\ UNCHANGED <<exVars, poolVars, pullVars, dirVars, imgVars, ignVars>>

\* var osPackageData, var layerNum; if spdxOpts.ScanImages { layerNum,
\* osPackageData, err = ct.ReadOSPackages(layerPaths); ... }
LayScan ==
    /\ lpc = "scan"
    /\ IF scanImages /\ scanOut.err
       THEN /\ LayFail("getting os data from container")
            /\ UNCHANGED <<layerNum, osPackageData, layerI>>
       ELSE /\ layerNum' = IF scanImages THEN scanOut.layerNum ELSE 0
            /\ osPackageData' = IF scanImages THEN scanOut.data ELSE NoData
            /\ layerI' = 0
            /\ lpc' = "loop"
            /\ UNCHANGED layRet
    /\ UNCHANGED <<scanImages, analyzeLayers, layerFiles, scanOut, layFault,
                   imagePackage>>
    /\ UNCHANGED <<exVars, poolVars, pullVars, dirVars, imgVars, ignVars>>

\* the OS package made of an entry: name, version, and its purl if it has one
OsPackage(e) ==
    [Name |-> e.Package, Version |-> e.Version,
     ExternalRefs |-> IF e.PackageURL # ""
                      THEN <<[Category |-> "PACKAGE-MANAGER", Type |-> "purl",
                              Locator |-> e.PackageURL]>>
                      ELSE <<>>]

\* whenever the scanner gave data, whatever the layer
OsLayerAny(i) == ~osPackageData.isNil

\* i == layerNum && osPackageData != nil
OsLayer(i) == i = layerNum /\ ~osPackageData.isNil

\* the package of layer i, with one OS package per entry added by
\* pkg.AddPackage(ospk) if it is the layer of the OS data
LayerPackage(i) ==
    [layerFile |-> i,
     os |-> IF OsLayer(i)
            THEN [k \in 1..Len(osPackageData.entries) |->
                     OsPackage(osPackageData.entries[k])]
            ELSE <<>>]

\* one turn of the loop over manifest.LayerFiles
LayLayer ==
    /\ lpc = "loop"
    /\ layerI < layerFiles
    /\ IF layFault.step = "tarball" /\ layFault.at = layerI
       THEN /\ LayFail("building package from layer")
            /\ UNCHANGED <<imagePackage, layerI>>
       ELSE IF analyzeLayers /\ layFault.step = "analyze" /\ layFault.at = layerI
       THEN /\ LayFail("scanning layer")
            /\ UNCHANGED <<imagePackage, layerI>>
       ELSE /\ imagePackage' = Append(imagePackage, LayerPackage(layerI))
            /\ layerI' = layerI + 1
            /\ UNCHANGED <<lpc, layRet>>
    /\ UNCHANGED <<scanImages, analyzeLayers, layerFiles, scanOut, layFault,
                   layerNum, osPackageData>>
    /\ UNCHANGED <<exVars, poolVars, pullVars, dirVars, imgVars, ignVars>>

\* return imagePackage, nil
LayReturn ==
    /\ lpc = "loop"
    /\ layerI >= layerFiles
    /\ layRet' = [isNil |-> FALSE, layers |-> imagePackage, err |-> ""]
    /\ lpc' = "returned"
    /\ UNCHANGED <<scanImages, analyzeLayers, layerFiles, scanOut, layFault,
                   layerNum, osPackageData, layerI, imagePackage>>
    /\ UNCHANGED <<exVars, poolVars, pullVars, dirVars, imgVars, ignVars>>

\* PackageFromImageTarball called on an archive of 0..MaxLayerFiles layers
InitLayers ==
    /\ IdleExtract
    /\ IdlePools
    /\ IdlePull
    /\ IdleDir
    /\ IdleImage
    /\ IdleIgnore
    /\ lpc = "start"
    /\ scanImages \in BOOLEAN
    /\ analyzeLayers \in BOOLEAN
    /\ layerFiles \in 0..MaxLayerFiles
    /\ scanOut \in ScanResults
    /\ layFault \in LayFaults
    /\ layerNum = 0
    /\ osPackageData = NoData
    /\ layerI = 0
    /\ imagePackage = <<>>
    /\ layRet = NoLayers

NextLayers ==
    \/ LayStart
    \/ LayScan
    \/ LayLayer
    \/ LayReturn

SpecLayers == InitLayers /\ [][NextLayers]_vars

-----------------------------------------------------------------------------
(* IgnorePatterns.  A pattern is the text it was parsed from.                *)

MaxExtras == 2

MaxLines == 2

\* the patterns the caller can pass: "x", "y"
ExtraChoices == { <<"x">>, <<"y">> }

\* lines of a .gitignore: "*.l", "#c", " ", ""
GitLines == { <<"*", ".", "l">>, <<"#", "c">>, <<" ">>, <<>> }

\* the files IgnorePatterns can find at dirPath/.gitignore: none, one that
\* cannot be opened, or one of up to MaxLines lines
GitIgnoreFiles ==
    {[exists |-> FALSE, opens |-> TRUE, lines |-> <<>>],
     [exists |-> TRUE, opens |-> FALSE, lines |-> <<>>]}
      \cup {[exists |-> TRUE, opens |-> TRUE, lines |-> ls] :
               ls \in SeqsUpTo(GitLines, MaxLines)}

\* ".git/"
GitDir == <<".", "g", "i", "t", Sep>>

IsSpace(c) == c \in {" ", "\t"}

RECURSIVE TrimLeft(_)
TrimLeft(t) ==
    IF t # <<>> /\ IsSpace(Head(t)) THEN TrimLeft(Tail(t)) ELSE t

RECURSIVE TrimRight(_)
TrimRight(t) ==
    IF t # <<>> /\ IsSpace(t[Len(t)])
    THEN TrimRight(SubSeq(t, 1, Len(t) - 1))
    ELSE t

\* strings.TrimSpace
TrimSpace(t) == TrimRight(TrimLeft(t))

\* !strings.HasPrefix(s, "#") && len(strings.TrimSpace(s)) > 0
LoadsLine(t) == ~HasPrefix(t, <<"#">>) /\ Len(TrimSpace(t)) > 0

\* return patterns, nil
IgnDone ==
    /\ ignRet' = [isNil |-> FALSE, patterns |-> patterns', err |-> ""]
    /\ gpc' = "returned"

\* patterns := the extra patterns; if skipGitIgnore { return patterns, nil }
IgnExtras ==
    /\ gpc = "call"
    /\ patterns' = extraPatterns
    /\ IF skipGitIgnore
       THEN IgnDone
       ELSE gpc' = "open" /\ UNCHANGED ignRet
    /\ UNCHANGED <<extraPatterns, skipGitIgnore, gitIgnore, scanned>>
    /\ UNCHANGED <<exVars, poolVars, pullVars, dirVars, imgVars, layVars>>

\* if util.Exists(.gitignore) { os.Open; patterns = append(patterns, ".git/") }
IgnOpen ==
    /\ gpc = "open"
    /\ IF ~gitIgnore.exists
       THEN /\ gpc' = "return"
            /\ UNCHANGED <<patterns, ignRet>>
       ELSE IF ~gitIgnore.opens
       THEN /\ ignRet' = [isNil |-> TRUE, patterns |-> <<>>,
                          err |-> "opening gitignore file"]
            /\ gpc' = "returned"
            /\ UNCHANGED patterns
       ELSE /\ patterns' = Append(patterns, GitDir)
            /\ gpc' = "scan"
            /\ UNCHANGED ignRet
    /\ UNCHANGED <<extraPatterns, skipGitIgnore, gitIgnore, scanned>>
    /\ UNCHANGED <<exVars, poolVars, pullVars, dirVars, imgVars, layVars>>

\* for scanner.Scan() { s := scanner.Text(); if ... { append } }
IgnLine ==
    /\ gpc = "scan"
    /\ scanned < Len(gitIgnore.lines)
    /\ LET t == gitIgnore.lines[scanned + 1]
       IN  patterns' = IF LoadsLine(t) THEN Append(patterns, t) ELSE patterns
    /\ scanned' = scanned + 1
    /\ UNCHANGED <<gpc, extraPatterns, skipGitIgnore, gitIgnore, ignRet>>
    /\ UNCHANGED <<exVars, poolVars, pullVars, dirVars, imgVars, layVars>>

\* the end of IgnorePatterns: return patterns, nil
IgnReturn ==
    /\ \/ gpc = "return"
       \/ gpc = "scan" /\ scanned = Len(gitIgnore.lines)
    /\ UNCHANGED patterns
    /\ IgnDone
    /\ UNCHANGED <<extraPatterns, skipGitIgnore, gitIgnore, scanned>>
    /\ UNCHANGED <<exVars, poolVars, pullVars, dirVars, imgVars, layVars>>

\* IgnorePatterns called
InitIgnore ==
    /\ IdleExtract
    /\ IdlePools
    /\ IdlePull
    /\ IdleDir
    /\ IdleImage
    /\ IdleLayers
    /\ gpc = "call"
    /\ extraPatterns \in SeqsUpTo(ExtraChoices, MaxExtras)
    /\ skipGitIgnore \in BOOLEAN
    /\ gitIgnore \in GitIgnoreFiles
    /\ scanned = 0
    /\ patterns = <<>>
    /\ ignRet = NoPatterns

NextIgnore ==
    \/ IgnExtras
    \/ IgnOpen
    \/ IgnLine
    \/ IgnReturn

SpecIgnore == InitIgnore /\ [][NextIgnore]_vars

-----------------------------------------------------------------------------
(* Properties of the extraction engine *)

\* an entry that is extracted as a file
FileEntry(h) == ~IsDir(h) /\ ~IsWhiteout(h)

\* join(tmpDir, entry.Name) is a strict descendant of clean(tmpDir)+separator
LegalEntry(h) == StrictlyUnder(Join(TmpPath, h.name), Clean(TmpPath))

\* C1: when ExtractTarballTmp returns while processing a non-directory,
\* non-whiteout entry whose join(tmpDir, entry.Name) is not a strict descendant
\* of clean(tmpDir)+separator, the error it returns is "illegal file path";
\* and every file on disk lies strictly under tmpDir.
C1_IllegalPathRejected ==
    /\ (/\ pc = "returned"
        /\ idx > 0
        /\ FileEntry(Hdr)
        /\ ~LegalEntry(Hdr)) => retErr = IllegalPath
    /\ \A f \in files : StrictlyUnder(f, TmpPath)

\* C3: when PackageFromTarball / PackageFromImageTarball has returned, the
\* temporary directory ExtractTarballTmp created for it is gone.
C3_TempDirRemovedOnExit ==
    pc = "exit" => TmpPath \notin dirs

\* C4: when ExtractTarballTmp returns an error after it created the temporary
\* directory, the path it returns is the path of that directory.
C4_DirReturnedWithError ==
    (pc = "returned" /\ retErr # Nil /\ tmpDir # NoPath) => retDir = TmpPath

\* C5: ExtractTarballTmp never returns success after a copy that delivered
\* fewer than entry.Size bytes.
C5_ShortCopyIsError ==
    (pc = "returned" /\ shortCopy) => retErr # Nil

-----------------------------------------------------------------------------
(* Properties of the pools *)

\* C2: when PackageFromDirectory has returned and the processing of some file
\* failed (classification, checksum or AddFile), it returned a non-nil error
\* and no package.
C2_FileErrorIsFatal ==
    (/\ op = "PackageFromDirectory"
     /\ mpc = "returned"
     /\ \E i \in DOMAIN fileList : fileList[i].fail # "none")
        => (dirRet.err # NoErr /\ dirRet.isNil)

\* C6: the tasks started and not yet done never exceed 4 in
\* PullImagesToArchive and 5 in PackageFromDirectory.
C6_PoolCap ==
    /\ op = "PullImagesToArchive" => Cardinality(InFlight) <= 4
    /\ op = "PackageFromDirectory" => Cardinality(InFlight) <= 5

\* the file pool is full, a file is still to be started, and the loop waits
C6_PoolFull ==
    /\ op = "PackageFromDirectory"
    /\ Cardinality(InFlight) = 5
    /\ Cardinality(Spawned) < Len(fileList)
    /\ mpc = "recvCap"

\* C7: when PullImagesToArchive has returned, every child's task was started
\* and has called Done; and if a download failed it returned no reference
\* info and an error, the one recorded first.
C7_FirstErrorAfterJoin ==
    (op = "PullImagesToArchive" /\ mpc = "returned") =>
        /\ \A i \in 1..Len(references) : tpc[i] = "done"
        /\ InFlight = {}
        /\ (\E i \in 1..Len(references) : outcome[i] # "ok") =>
              /\ pullRet.isNil
              /\ pullRet.err # NoErr
              /\ Head(pullRet.err) = Head(errs)
              /\ outcome[Head(pullRet.err)[1]] = Head(pullRet.err)[2]

\* two downloads failed, the second child's first, and one succeeded
C7_TwoFailures ==
    /\ op = "PullImagesToArchive"
    /\ mpc = "returned"
    /\ Len(errs) = 2
    /\ Head(errs)[1] = 2
    /\ Len(newrefs) = 1

RECURSIVE AfterLast(_, _)
\* the part of s after its last c
AfterLast(s, c) ==
    IF s = <<>> \/ s[Len(s)] = c THEN <<>>
    ELSE Append(AfterLast(SubSeq(s, 1, Len(s) - 1), c), s[Len(s)])

\* the hex portion of a digest reference
DigestHex(d) == AfterLast(d, ":")

\* a tar file name without ".tar"
TarStem(t) == SubSeq(Base(t), 1, Len(Base(t)) - Len(TarSuffix))

\* C8: a successful PullImagesToArchive returns each child of the index
\* exactly once, with Archive = <outDir>/<hex>.tar for its own digest, and the
\* hex portions of the children are the names of the .tar files written.
C8_ChildrenMatchArchives ==
    (op = "PullImagesToArchive" /\ mpc = "returned" /\ ~pullRet.isNil) =>
        LET got == pullRet.Images
        IN  /\ Len(got) = Len(references)
            /\ \A i \in 1..Len(references) :
                  Cardinality({k \in 1..Len(got) :
                                  [got[k] EXCEPT !.Archive = <<>>] = references[i]})
                    = Cardinality({j \in 1..Len(references) :
                                      references[j] = references[i]})
            /\ \A k \in 1..Len(got) :
                  got[k].Archive =
                      OutDir \o <<Sep>> \o DigestHex(got[k].Digest) \o TarSuffix
            /\ \A t \in tars : Dir(t) = OutDir
            /\ {DigestHex(got[k].Digest) : k \in 1..Len(got)}
                  = {TarStem(t) : t \in tars}

\* three children, two of them with the same digest, returned in another
\* order than the index lists them
C8_ThreeChildrenReordered ==
    /\ op = "PullImagesToArchive"
    /\ mpc = "returned"
    /\ ~pullRet.isNil
    /\ Len(pullRet.Images) = 3
    /\ pullRet.Images[1].Digest = references[2].Digest
    /\ pullRet.Images[2].Digest = pullRet.Images[3].Digest

-----------------------------------------------------------------------------
(* Properties of ImageRefToPackage *)

\* the positions of the relationships of type t of package q
RelsOfType(q, t) ==
    {k \in 1..Len(heap[q].Relationships) : heap[q].Relationships[k].Type = t}

\* the packages that are the peer of some relationship of type t
PeersOfType(t) ==
    UNION {{heap[q].Relationships[k].Peer : k \in RelsOfType(q, t)} :
              q \in 1..Len(heap)}

\* ImageRefToPackage has returned a package for an index with children
MultiArchSuccess ==
    /\ ipc = "returned"
    /\ ~imgRet.isNil
    /\ Len(references) > 0

\* C9: when ImageRefToPackage succeeds on an index of N children, the root
\* has exactly N CONTAINS relationships, all FullRender, with N distinct
\* sub-packages as peers; each of these has exactly one VARIANT_OF
\* relationship, whose peer is the root; and no package is the peer of a
\* CONTAINS and of a VARIANT_OF relationship.
C9_VariantRelationships ==
    MultiArchSuccess =>
        LET root     == imgRet.pkg
            contains == RelsOfType(root, "CONTAINS")
            children == {heap[root].Relationships[k].Peer : k \in contains}
        IN  /\ Cardinality(contains) = Len(references)
            /\ \A k \in contains : heap[root].Relationships[k].FullRender
            /\ Cardinality(children) = Len(references)
            /\ root \notin children
            /\ \A c \in children :
                  /\ Cardinality(RelsOfType(c, "VARIANT_OF")) = 1
                  /\ \A k \in RelsOfType(c, "VARIANT_OF") :
                        heap[c].Relationships[k].Peer = root
            /\ PeersOfType("CONTAINS") \cap PeersOfType("VARIANT_OF") = {}

\* three children, two of them built from the same archive, each with a layer
C9_ThreeVariantsWithLayers ==
    /\ MultiArchSuccess
    /\ Len(references) = 3
    /\ Len(heap) = 7
    /\ \A c \in 2..Len(heap) :
          RelsOfType(c, "VARIANT_OF") # {} => RelsOfType(c, "CONTAINS") # {}

\* C10: when ImageRefToPackage succeeds on an index and the registry is
\* reachable, the sub-package of every child has a PACKAGE-MANAGER/purl
\* external reference whose arch and os qualifiers are the child's Arch and OS.
C10_ChildHasPurl ==
    (MultiArchSuccess /\ registryUp) =>
        \A k \in 1..Len(pullRet.Images) :
            LET img == pullRet.Images[k]
                sub == heap[imgRet.pkg].Relationships[k].Peer
            IN  \E x \in 1..Len(heap[sub].ExternalRefs) :
                    LET e == heap[sub].ExternalRefs[x]
                    IN  /\ e.Category = "PACKAGE-MANAGER"
                        /\ e.Type = "purl"
                        /\ img.Arch # <<>> =>
                              <<"arch", img.Arch>> \in e.Locator.qualifiers
                        /\ img.OS # <<>> =>
                              <<"os", img.OS>> \in e.Locator.qualifiers

-----------------------------------------------------------------------------
(* Properties of the layers of PackageFromImageTarball *)

\* C11: a layer package holds OS packages only if ScanImages is set, the
\* scanner returned package data, and the layer's index in manifest order is
\* the layer number the scanner returned; that layer holds exactly one OS
\* package per entry, in order; and a package returned has every layer.
C11_OsPackagesInScannedLayer ==
    /\ \A k \in 1..Len(imagePackage) :
          IF scanImages /\ ~scanOut.data.isNil /\ k - 1 = scanOut.layerNum
          THEN /\ Len(imagePackage[k].os) = Len(scanOut.data.entries)
               /\ \A j \in 1..Len(scanOut.data.entries) :
                     /\ imagePackage[k].os[j].Name = scanOut.data.entries[j].Package
                     /\ imagePackage[k].os[j].Version = scanOut.data.entries[j].Version
          ELSE imagePackage[k].os = <<>>
    /\ (lpc = "returned" /\ ~layRet.isNil) =>
          /\ layRet.layers = imagePackage
          /\ Len(layRet.layers) = layerFiles

\* two layers returned, the second one holding the two OS packages
C11_SecondLayerScanned ==
    /\ lpc = "returned"
    /\ ~layRet.isNil
    /\ Len(layRet.layers) = 2
    /\ layRet.layers[1].os = <<>>
    /\ Len(layRet.layers[2].os) = 2

-----------------------------------------------------------------------------
(* Properties of IgnorePatterns *)

\* a line that is neither blank nor a comment
PatternLine(t) ==
    /\ \E i \in 1..Len(t) : ~IsSpace(t[i])
    /\ ~(t # <<>> /\ t[1] = "#")

\* C12: when IgnorePatterns returns a list and .gitignore loading is enabled,
\* the list is the extra patterns, then ".git/", then the non-blank,
\* non-comment lines of the .gitignore.
C12_GitDirAlwaysIgnored ==
    (gpc = "returned" /\ ~skipGitIgnore /\ ~ignRet.isNil) =>
        ignRet.patterns =
            extraPatterns \o <<GitDir>> \o SelectSeq(gitIgnore.lines, PatternLine)

-----------------------------------------------------------------------------
(* Further properties of the extraction engine *)

\* the positions of the archive's entries that are extracted as files
FileEntries ==
    {k \in 1..Len(archive.entries) : FileEntry(archive.entries[k])}

\* C13: when ExtractTarballTmp returns without error, numFiles is the number
\* of entries that are neither directories nor whiteouts and the files on
\* disk are those entries; and no file on disk comes from a directory entry
\* or a whiteout entry.
C13_FileCount ==
    /\ (pc = "returned" /\ retErr = Nil) =>
          /\ numFiles = Cardinality(FileEntries)
          /\ files = {Join(TmpPath, archive.entries[k].name) : k \in FileEntries}
    /\ \A f \in files :
          \E k \in FileEntries : f = Join(TmpPath, archive.entries[k].name)

\* C14: no directory is ever created outside tmpDir.
C14_NoDirOutsideTmpDir ==
    \A d \in dirs : Under(d, TmpPath)

-----------------------------------------------------------------------------
(* Further properties of PackageFromDirectory *)

\* C15: every File added to the package carries the license of its own file:
\* its LicenseID as LicenseInfoInFile, or NONE with the package's concluded
\* tag as LicenseConcluded when its classification found none.
C15_OwnLicense ==
    \A r \in pkgFiles :
        IF fileList[r.file].lic = "nil"
        THEN /\ r.f.LicenseInfoInFile = NONE
             /\ r.f.LicenseConcluded = LicenseTag
        ELSE r.f.LicenseInfoInFile = fileList[r.file].lic

-----------------------------------------------------------------------------
(* Further properties of ImageRefToPackage *)

====
